---- MODULE Spec2Model ----
(***************************************************************************)
(* A model of the segmented LRU cache of slru.go: two recency lists        *)
(* (probation, protected), the lookup map items, and the operations Set,   *)
(* Get, Peek, Contains, Len and Purge under one reader/writer lock.        *)
(*                                                                         *)
(* Spec      runs the operations one at a time (each action is one whole   *)
(*           call), from New(size) for every size in 1..MaxSize.           *)
(* SpecConc  runs NumProcs callers against one cache; a call is the        *)
(*           sequence of its statements, between taking and releasing      *)
(*           the lock.                                                      *)
(* SpecFair  is SpecConc under fair scheduling of the callers.             *)
(* SpecAnySize is Spec started from New(n) for non-positive n as well.     *)
(***************************************************************************)
EXTENDS Integers, Sequences, FiniteSets, TLC

MaxSize == 10
NumKeys == 5
ValKeys == 3
NumVals == 2
NumProcs == 2
ConcKeys == 2

\* The runs checked, as <<size, number of keys, number of values>>: every
\* size with ValKeys keys that store any of NumVals values, and the sizes at
\* which the probation capacity steps (and size 1) with NumKeys keys that all
\* store one value.
Domains ==
    {<<n, ValKeys, NumVals>> : n \in 1..MaxSize}
        \cup {<<n, NumKeys, 1>> : n \in {n \in 1..MaxSize : n = 1 \/ n % 5 = 0}}
\* the zero value of V, returned by Get and Peek on a miss
ZeroValue == 0

VARIABLES
    size,           \* SLRU.size
    probationSize,  \* SLRU.probationSize
    protectedSize,  \* SLRU.protectedSize
    items,          \* SLRU.items: key -> the element holding the key
    probation,      \* SLRU.probation: entries, front first
    protected,      \* SLRU.protected: entries, front first
    numKeys,        \* the callers use the keys 1..numKeys
    numVals,        \* the callers store the values 1..numVals
    last,           \* the call that completed last, with what it returned
    admitOrder,     \* history: keys of probation, oldest admission first
    hitOrder,       \* history: keys of protected, oldest hit first
    written,        \* history: for each key present, the value of its latest Set
    lock,           \* SLRU.lock: the writer holding it (0: none) and the readers
    pc,             \* where each caller is in its call
    call,           \* the call each caller is making
    elem,           \* the local e of Set and Get
    ret,            \* what each caller's call returns
    serial,         \* the cache after the calls so far, run whole in lock order
    expect          \* what each call returns when run whole in lock order

cacheVars == <<items, probation, protected>>
sizeVars == <<size, probationSize, protectedSize>>
inputVars == <<numKeys, numVals>>
histVars == <<last, admitOrder, hitOrder, written>>
concVars == <<lock, pc, call, elem, ret, serial, expect>>
vars == <<size, probationSize, protectedSize, items, probation, protected,
          numKeys, numVals, last, admitOrder, hitOrder, written,
          lock, pc, call, elem, ret, serial, expect>>

Procs == 1..NumProcs

Keys == 1..numKeys
Values == 1..numVals

----------------------------------------------------------------------------
(* The list package: a list is the sequence of the entries its elements   *)
(* hold, front first. An element is named by the list it was made in and  *)
(* the key of the entry it holds.                                          *)

entry(k, v) == [key |-> k, value |-> v]

Element(l, k) == [list |-> l, key |-> k]

\* the keys held by the elements of a list
KeysOf(l) == {l[i].key : i \in 1..Len(l)}

\* the position of the element holding key k in l, 0 when there is none
Pos(l, k) ==
    IF k \in KeysOf(l) THEN CHOOSE i \in 1..Len(l) : l[i].key = k /\ \A j \in 1..(i-1) : l[j].key # k
    ELSE 0

RemoveAt(l, i) == [j \in 1..(Len(l) - 1) |-> IF j < i THEN l[j] ELSE l[j + 1]]

PushFront(l, v) == <<v>> \o l

\* list.Remove(e): e leaves the list; no effect when e is not in it
Remove(l, k) == IF Pos(l, k) = 0 THEN l ELSE RemoveAt(l, Pos(l, k))

\* list.MoveToFront(e)
MoveToFront(l, k) == IF Pos(l, k) = 0 THEN l ELSE <<l[Pos(l, k)]>> \o RemoveAt(l, Pos(l, k))

\* list.Back(): the position of the last element, 0 (nil) on an empty list
Back(l) == Len(l)

\* e.List(): the list that holds e now, "none" once e was removed
ListOf(c, e) == IF Pos(c[e.list], e.key) # 0 THEN e.list ELSE "none"

\* e.Value: the entry e points to
ValueOf(c, e) == c[e.list][Pos(c[e.list], e.key)]

----------------------------------------------------------------------------
(* The cache as a value: c.items, c.probation, c.protected, and c.panic   *)
(* set when the call ended in a nil dereference.                           *)

Cache == [items |-> items, probation |-> probation, protected |-> protected, panic |-> FALSE]

MapDelete(m, k) == [x \in (DOMAIN m) \ {k} |-> m[x]]

MapSet(m, k, e) == [x \in (DOMAIN m) \cup {k} |-> IF x = k THEN e ELSE m[x]]

\* o.Value.(*entry).value = v, seen through every element that points to the entry
WriteValue(l, k, v) == [i \in 1..Len(l) |-> IF l[i].key = k THEN [l[i] EXCEPT !.value = v] ELSE l[i]]

\* evict without line 125: the key stays in the map
evictKeepsMapEntry(c, ln) ==
    IF Back(c[ln]) = 0
    THEN [c EXCEPT !.panic = TRUE]
    ELSE [c EXCEPT ![ln] = RemoveAt(@, Back(c[ln]))]

\* evict that moves the victim of protected to the front of probation
evictDemotes(c, ln) ==
    IF Back(c[ln]) = 0
    THEN [c EXCEPT !.panic = TRUE]
    ELSE LET o == Back(c[ln])
             key == c[ln][o].key
         IN IF ln = "protected"
            THEN [c EXCEPT !.items = MapSet(@, key, Element("probation", key)),
                           !.probation = PushFront(@, c[ln][o]),
                           !.protected = RemoveAt(@, o)]
            ELSE [c EXCEPT !.items = MapDelete(@, key), ![ln] = RemoveAt(@, o)]

\* evict that takes l.Front() for l.Back()
evictFront(c, ln) ==
    IF Back(c[ln]) = 0
    THEN [c EXCEPT !.panic = TRUE]
    ELSE [c EXCEPT !.items = MapDelete(@, c[ln][1].key), ![ln] = RemoveAt(@, 1)]

evict(c, ln) ==
    IF Back(c[ln]) = 0
    THEN [c EXCEPT !.panic = TRUE]
    ELSE LET o == Back(c[ln])
             key == c[ln][o].key
         IN [c EXCEPT !.items = MapDelete(@, key), ![ln] = RemoveAt(@, o)]

\* Promote without the capacity check of lines 53 and 78
PromoteNoEvict(c, e) ==
    LET v == ValueOf(c, e)
        c1 == [c EXCEPT !.items = MapSet(@, v.key, Element("protected", v.key)),
                        !.protected = PushFront(@, v)]
    IN [c1 EXCEPT !.probation = Remove(@, e.key)]

\* lines 51-55 and 76-80: e moves from probation to the front of protected
Promote(c, e) ==
    LET v == ValueOf(c, e)
        c1 == [c EXCEPT !.items = MapSet(@, v.key, Element("protected", v.key)),
                        !.protected = PushFront(@, v)]
        c2 == [c1 EXCEPT !.probation = Remove(@, e.key)]
    IN IF Len(c2.protected) > protectedSize THEN evict(c2, "protected") ELSE c2

\* Touch as a plain LRU: a hit in probation only refreshes the element there
TouchNoPromote(c, e) ==
    IF ListOf(c, e) = "protected"
    THEN [c EXCEPT !.protected = MoveToFront(@, e.key)]
    ELSE [c EXCEPT !.probation = MoveToFront(@, e.key)]

\* Touch with PushFront in place of MoveToFront on a protected hit
TouchPushAgain(c, e) ==
    LET c1 == IF ListOf(c, e) = "protected"
              THEN [c EXCEPT !.protected = PushFront(@, ValueOf(c, e))]
              ELSE c
    IN IF ListOf(c1, e) = "probation" THEN PromoteNoEvict(c1, e) ELSE c1

\* lines 47-56 and 72-81
Touch(c, e) ==
    LET c1 == IF ListOf(c, e) = "protected"
              THEN [c EXCEPT !.protected = MoveToFront(@, e.key)]
              ELSE c
    IN IF ListOf(c1, e) = "probation" THEN Promote(c1, e) ELSE c1

\* Set that writes the value through the element it found only, not through
\* the element a promotion made
SetOpWritesOldElement(c, key, value) ==
    IF key \in DOMAIN c.items
    THEN LET e == c.items[key]
             c1 == Touch(c, e)
         IN [c1 EXCEPT ![e.list] = WriteValue(@, key, value)]
    ELSE LET c1 == IF Len(c.probation) >= probationSize THEN evict(c, "probation") ELSE c
         IN IF c1.panic THEN c1
            ELSE [c1 EXCEPT !.items = MapSet(@, key, Element("probation", key)),
                            !.probation = PushFront(@, entry(key, value))]

\* Set that makes room in protected, not probation, for a new key
SetOpEvictsProtected(c, key, value) ==
    IF key \in DOMAIN c.items
    THEN LET e == c.items[key]
             c1 == Touch(c, e)
         IN [c1 EXCEPT !.probation = WriteValue(@, key, value),
                       !.protected = WriteValue(@, key, value)]
    ELSE LET c1 == IF Len(c.probation) >= probationSize THEN evict(c, "protected") ELSE c
         IN IF c1.panic THEN c1
            ELSE [c1 EXCEPT !.items = MapSet(@, key, Element("probation", key)),
                            !.probation = PushFront(@, entry(key, value))]

\* Set that makes room in probation before it looks the key up
SetOpRoomFirst(c, key, value) ==
    LET c0 == IF Len(c.probation) >= probationSize THEN evict(c, "probation") ELSE c
    IN IF c0.panic THEN c0
       ELSE IF key \in DOMAIN c0.items
       THEN LET e == c0.items[key]
                c1 == Touch(c0, e)
            IN [c1 EXCEPT !.probation = WriteValue(@, key, value),
                          !.protected = WriteValue(@, key, value)]
       ELSE [c0 EXCEPT !.items = MapSet(@, key, Element("probation", key)),
                       !.probation = PushFront(@, entry(key, value))]

SetOp(c, key, value) ==
    IF key \in DOMAIN c.items
    THEN LET e == c.items[key]
             k == ValueOf(c, e).key
             c1 == Touch(c, e)
         IN IF c1.panic THEN c1
            ELSE [c1 EXCEPT !.probation = WriteValue(@, k, value),
                            !.protected = WriteValue(@, k, value)]
    ELSE LET c1 == IF Len(c.probation) >= probationSize THEN evict(c, "probation") ELSE c
         IN IF c1.panic THEN c1
            ELSE [c1 EXCEPT !.items = MapSet(@, key, Element("probation", key)),
                            !.probation = PushFront(@, entry(key, value))]

\* Get that makes room in probation on a miss, as Set does
GetOpMissMakesRoom(c, key) ==
    IF key \in DOMAIN c.items
    THEN LET e == c.items[key]
             c1 == Touch(c, e)
         IN [c |-> c1, value |-> ValueOf(c, e).value, ok |-> TRUE]
    ELSE [c |-> IF Len(c.probation) >= probationSize THEN evict(c, "probation") ELSE c,
          value |-> ZeroValue, ok |-> FALSE]

GetOp(c, key) ==
    IF key \in DOMAIN c.items
    THEN LET e == c.items[key]
             c1 == Touch(c, e)
         IN [c |-> c1, value |-> ValueOf(c, e).value, ok |-> TRUE]
    ELSE [c |-> c, value |-> ZeroValue, ok |-> FALSE]

ContainsOp(c, key) == [c |-> c, ok |-> key \in DOMAIN c.items]

\* Peek that refreshes and promotes as Get does
PeekOpTouching(c, key) ==
    IF key \in DOMAIN c.items
    THEN [c |-> TouchNoPromote(c, c.items[key]), value |-> ValueOf(c, c.items[key]).value, ok |-> TRUE]
    ELSE [c |-> c, value |-> ZeroValue, ok |-> FALSE]

PeekOp(c, key) ==
    IF key \in DOMAIN c.items
    THEN [c |-> c, value |-> ValueOf(c, c.items[key]).value, ok |-> TRUE]
    ELSE [c |-> c, value |-> ZeroValue, ok |-> FALSE]

LenOp(c) == [c |-> c, n |-> Len(c.probation) + Len(c.protected)]

\* Purge that forgets line 119
PurgeOpKeepsProtected(c) == [c EXCEPT !.items = <<>>, !.probation = <<>>]

PurgeOp(c) == [c EXCEPT !.items = <<>>, !.probation = <<>>, !.protected = <<>>]

----------------------------------------------------------------------------
(* History of admissions and hits, kept beside the cache.                  *)

RECURSIVE Keep(_, _)
Keep(s, S) ==
    IF s = <<>> THEN <<>>
    ELSE IF Head(s) \in S THEN <<Head(s)>> \o Keep(Tail(s), S) ELSE Keep(Tail(s), S)

\* key k was admitted or hit now; S are the keys the segment holds afterwards
Stamp(s, k, S) == Keep(Keep(s, S \ {k}) \o <<k>>, S)

Call(op, k, v, r, ok, panic) ==
    [op |-> op, key |-> k, val |-> v, ret |-> r, ok |-> ok, panic |-> panic]

----------------------------------------------------------------------------
\* int(DefaultProbationRatio * float64(n)): the float64 nearest 0.2 is just
\* above 0.2 and the product rounds to n/5 exactly when 5 divides n, so the
\* conversion, which truncates toward zero, gives the quotient of |n| by 5
\* with the sign of n.
ProbationOf(n) == IF n >= 0 THEN n \div 5 ELSE 0 - ((0 - n) \div 5)

\* New that rounds the probation share up
NewRoundsUp(n) ==
    /\ size = n
    /\ items = <<>>
    /\ probation = <<>>
    /\ protected = <<>>
    /\ probationSize = (n + 4) \div 5
    /\ protectedSize = n - ((n + 4) \div 5)

New(n) ==
    /\ size = n
    /\ items = <<>>
    /\ probation = <<>>
    /\ protected = <<>>
    /\ probationSize = ProbationOf(n)
    /\ protectedSize = n - ProbationOf(n)

NoCall == [op |-> "none", key |-> 0, val |-> 0]
NoElem == [list |-> "none", key |-> 0]
NoRet == [value |-> ZeroValue, ok |-> FALSE, n |-> 0, panic |-> FALSE]

\* no caller has called yet
Idle ==
    /\ last = Call("New", 0, 0, 0, FALSE, FALSE)
    /\ admitOrder = <<>>
    /\ hitOrder = <<>>
    /\ written = <<>>
    /\ lock = [writer |-> 0, readers |-> {}]
    /\ pc = [p \in Procs |-> "idle"]
    /\ call = [p \in Procs |-> NoCall]
    /\ elem = [p \in Procs |-> NoElem]
    /\ ret = [p \in Procs |-> NoRet]
    /\ expect = [p \in Procs |-> NoRet]
    /\ serial = [items |-> <<>>, probation |-> <<>>, protected |-> <<>>, panic |-> FALSE]

Init ==
    /\ \E d \in Domains : New(d[1]) /\ numKeys = d[2] /\ numVals = d[3]
    /\ Idle

Store(c) ==
    /\ items' = c.items
    /\ probation' = c.probation
    /\ protected' = c.protected

Set(key, value) ==
    LET c == SetOp(Cache, key, value) IN
    /\ Store(c)
    /\ last' = Call("Set", key, value, 0, FALSE, c.panic)
    /\ admitOrder' = IF c.panic THEN admitOrder ELSE Stamp(admitOrder, key, KeysOf(c.probation))
    /\ hitOrder' = IF c.panic THEN hitOrder ELSE Stamp(hitOrder, key, KeysOf(c.protected))
    /\ written' = IF c.panic THEN written
                  ELSE [k \in DOMAIN c.items |-> IF k = key THEN value ELSE written[k]]
    /\ UNCHANGED <<sizeVars, inputVars, concVars>>

Get(key) ==
    LET r == GetOp(Cache, key) IN
    /\ Store(r.c)
    /\ last' = Call("Get", key, 0, r.value, r.ok, r.c.panic)
    /\ admitOrder' = Keep(admitOrder, KeysOf(r.c.probation))
    /\ hitOrder' = IF r.ok THEN Stamp(hitOrder, key, KeysOf(r.c.protected)) ELSE hitOrder
    /\ written' = [k \in DOMAIN r.c.items |-> written[k]]
    /\ UNCHANGED <<sizeVars, inputVars, concVars>>

Contains(key) ==
    LET r == ContainsOp(Cache, key) IN
    /\ Store(r.c)
    /\ last' = Call("Contains", key, 0, 0, r.ok, FALSE)
    /\ UNCHANGED <<sizeVars, inputVars, concVars, admitOrder, hitOrder, written>>

Peek(key) ==
    LET r == PeekOp(Cache, key) IN
    /\ Store(r.c)
    /\ last' = Call("Peek", key, 0, r.value, r.ok, FALSE)
    /\ UNCHANGED <<sizeVars, inputVars, concVars, admitOrder, hitOrder, written>>

Length ==
    LET r == LenOp(Cache) IN
    /\ Store(r.c)
    /\ last' = Call("Len", 0, 0, r.n, FALSE, FALSE)
    /\ UNCHANGED <<sizeVars, inputVars, concVars, admitOrder, hitOrder, written>>

Purge ==
    /\ Store(PurgeOp(Cache))
    /\ last' = Call("Purge", 0, 0, 0, FALSE, FALSE)
    /\ admitOrder' = <<>>
    /\ hitOrder' = <<>>
    /\ written' = <<>>
    /\ UNCHANGED <<sizeVars, inputVars, concVars>>

Next ==
    \/ \E k \in Keys, v \in Values : Set(k, v)
    \/ \E k \in Keys : Get(k)
    \/ \E k \in Keys : Contains(k)
    \/ \E k \in Keys : Peek(k)
    \/ Length
    \/ Purge

Spec == Init /\ [][Next]_vars

\* New takes any int: the runs of SpecAnySize start from New(n) for the
\* non-positive sizes too.
InitAnySize ==
    /\ \E n \in (0 - MaxSize)..MaxSize : New(n)
    /\ numKeys = ValKeys
    /\ numVals = NumVals
    /\ Idle

SpecAnySize == InitAnySize /\ [][Next]_vars

----------------------------------------------------------------------------
(* Concurrent callers. Each action is one statement of a call; the        *)
(* positions are named after what the statement does.                      *)

\* the sizes of the concurrent runs: one without and one with a probation slot
ConcSizes == {n \in 1..MaxSize : n = 1 \/ n = MaxSize \div 2}

InitConc ==
    /\ \E n \in ConcSizes : New(n)
    /\ numKeys = ConcKeys
    /\ numVals = NumVals
    /\ Idle

Mutators == {"Set", "Get", "Purge"}

\* Get taking the read lock, as a lookup would
LockModeGetShared(op) == IF op \in {"Set", "Purge"} THEN "Lock" ELSE "RLock"

\* Set taking the read lock
LockModeSetShared(op) == IF op \in {"Get", "Purge"} THEN "Lock" ELSE "RLock"

\* lines 43, 69, 114: Lock; lines 89, 96, 107: RLock
LockMode(op) == IF op \in Mutators THEN "Lock" ELSE "RLock"

\* the first statement after the lock is taken
Entry(op) ==
    CASE op \in {"Set", "Get"} -> "lookup"
      [] op = "Purge" -> "purgeItems"
      [] op = "Contains" -> "contains"
      [] op = "Peek" -> "peek"
      [] op = "Len" -> "len"

\* the positions at which a caller holds the lock
Holding ==
    {"lookup", "refresh", "test", "push", "remove", "overflow", "write", "return",
     "room", "admit", "purgeItems", "purgeProbation", "purgeProtected",
     "contains", "peek", "len", "unlock"}

\* the entry a pointer to the entry of key k reaches
EntryAt(c, k) ==
    IF k \in KeysOf(c.protected) THEN c.protected[Pos(c.protected, k)]
    ELSE IF k \in KeysOf(c.probation) THEN c.probation[Pos(c.probation, k)]
    ELSE entry(k, ZeroValue)

Goto(p, at) == pc' = [pc EXCEPT ![p] = at]

\* the call run whole on the serial cache, at the moment the lock is taken
Linearize(p) ==
    LET op == call[p].op
        k == call[p].key
    IN CASE op = "Set" ->
              LET c == SetOp(serial, k, call[p].val) IN
              /\ serial' = [c EXCEPT !.panic = FALSE]
              /\ expect' = [expect EXCEPT ![p] = [NoRet EXCEPT !.panic = c.panic]]
         [] op = "Get" ->
              LET r == GetOp(serial, k) IN
              /\ serial' = [r.c EXCEPT !.panic = FALSE]
              /\ expect' = [expect EXCEPT ![p] = [NoRet EXCEPT !.value = r.value, !.ok = r.ok,
                                                                 !.panic = r.c.panic]]
         [] op = "Purge" ->
              /\ serial' = PurgeOp(serial)
              /\ expect' = [expect EXCEPT ![p] = NoRet]
         [] op = "Contains" ->
              /\ serial' = serial
              /\ expect' = [expect EXCEPT ![p] = [NoRet EXCEPT !.ok = ContainsOp(serial, k).ok]]
         [] op = "Peek" ->
              /\ serial' = serial
              /\ expect' = [expect EXCEPT ![p] = [NoRet EXCEPT !.value = PeekOp(serial, k).value,
                                                                 !.ok = PeekOp(serial, k).ok]]
         [] op = "Len" ->
              /\ serial' = serial
              /\ expect' = [expect EXCEPT ![p] = [NoRet EXCEPT !.n = LenOp(serial).n]]

Invoke(p, op, k, v) ==
    /\ pc[p] = "idle"
    /\ call' = [call EXCEPT ![p] = [op |-> op, key |-> k, val |-> v]]
    /\ Goto(p, "lock")
    /\ UNCHANGED <<cacheVars, sizeVars, inputVars, histVars, lock, elem, ret, serial, expect>>

\* s.lock.Lock() / s.lock.RLock()
Acquire(p) ==
    /\ pc[p] = "lock"
    /\ IF LockMode(call[p].op) = "Lock"
       THEN /\ lock.writer = 0 /\ lock.readers = {}
            /\ lock' = [lock EXCEPT !.writer = p]
       ELSE /\ lock.writer = 0
            /\ lock' = [lock EXCEPT !.readers = @ \cup {p}]
    /\ Linearize(p)
    /\ Goto(p, Entry(call[p].op))
    /\ UNCHANGED <<cacheVars, sizeVars, inputVars, histVars, call, elem, ret>>

\* lines 46 and 71: e, ok := s.items[key]
Lookup(p) ==
    /\ pc[p] = "lookup"
    /\ IF call[p].key \in DOMAIN items
       THEN /\ elem' = [elem EXCEPT ![p] = items[call[p].key]]
            /\ Goto(p, "refresh")
            /\ ret' = ret
       ELSE /\ elem' = elem
            /\ IF call[p].op = "Set"
               THEN Goto(p, "room") /\ ret' = ret
               ELSE Goto(p, "unlock") /\ ret' = [ret EXCEPT ![p] = NoRet]
    /\ UNCHANGED <<cacheVars, sizeVars, inputVars, histVars, lock, call, serial, expect>>

\* lines 47-49 and 72-74
Refresh(p) ==
    /\ pc[p] = "refresh"
    /\ protected' = IF ListOf(Cache, elem[p]) = "protected"
                    THEN MoveToFront(protected, elem[p].key)
                    ELSE protected
    /\ Goto(p, "test")
    /\ UNCHANGED <<items, probation, sizeVars, inputVars, histVars, lock, call, elem, ret, serial, expect>>

\* lines 50 and 75
Test(p) ==
    /\ pc[p] = "test"
    /\ IF ListOf(Cache, elem[p]) = "probation"
       THEN Goto(p, "push")
       ELSE Goto(p, IF call[p].op = "Set" THEN "write" ELSE "return")
    /\ UNCHANGED <<cacheVars, sizeVars, inputVars, histVars, lock, call, elem, ret, serial, expect>>

\* lines 51 and 76
Push(p) ==
    /\ pc[p] = "push"
    /\ items' = MapSet(items, elem[p].key, Element("protected", elem[p].key))
    /\ protected' = PushFront(protected, EntryAt(Cache, elem[p].key))
    /\ Goto(p, "remove")
    /\ UNCHANGED <<probation, sizeVars, inputVars, histVars, lock, call, elem, ret, serial, expect>>

\* lines 52 and 77
RemoveOld(p) ==
    /\ pc[p] = "remove"
    /\ probation' = Remove(probation, elem[p].key)
    /\ Goto(p, "overflow")
    /\ UNCHANGED <<items, protected, sizeVars, inputVars, histVars, lock, call, elem, ret, serial, expect>>

\* lines 53-55 and 78-80
Overflow(p) ==
    /\ pc[p] = "overflow"
    /\ IF Len(protected) > protectedSize
       THEN LET c == evict(Cache, "protected") IN
            /\ Store(c)
            /\ IF c.panic
               THEN Goto(p, "unlock") /\ ret' = [ret EXCEPT ![p] = [NoRet EXCEPT !.panic = TRUE]]
               ELSE Goto(p, IF call[p].op = "Set" THEN "write" ELSE "return") /\ ret' = ret
       ELSE /\ Goto(p, IF call[p].op = "Set" THEN "write" ELSE "return")
            /\ UNCHANGED <<cacheVars, ret>>
    /\ UNCHANGED <<sizeVars, inputVars, histVars, lock, call, elem, serial, expect>>

\* line 57
Write(p) ==
    /\ pc[p] = "write"
    /\ probation' = WriteValue(probation, elem[p].key, call[p].val)
    /\ protected' = WriteValue(protected, elem[p].key, call[p].val)
    /\ Goto(p, "unlock")
    /\ UNCHANGED <<items, sizeVars, inputVars, histVars, lock, call, elem, ret, serial, expect>>

\* line 82
Return(p) ==
    /\ pc[p] = "return"
    /\ ret' = [ret EXCEPT ![p] = [NoRet EXCEPT !.value = EntryAt(Cache, elem[p].key).value,
                                              !.ok = TRUE]]
    /\ Goto(p, "unlock")
    /\ UNCHANGED <<cacheVars, sizeVars, inputVars, histVars, lock, call, elem, serial, expect>>

\* lines 61-63
Room(p) ==
    /\ pc[p] = "room"
    /\ IF Len(probation) >= probationSize
       THEN LET c == evict(Cache, "probation") IN
            /\ Store(c)
            /\ IF c.panic
               THEN Goto(p, "unlock") /\ ret' = [ret EXCEPT ![p] = [NoRet EXCEPT !.panic = TRUE]]
               ELSE Goto(p, "admit") /\ ret' = ret
       ELSE /\ Goto(p, "admit")
            /\ UNCHANGED <<cacheVars, ret>>
    /\ UNCHANGED <<sizeVars, inputVars, histVars, lock, call, elem, serial, expect>>

\* lines 64-65
Admit(p) ==
    /\ pc[p] = "admit"
    /\ items' = MapSet(items, call[p].key, Element("probation", call[p].key))
    /\ probation' = PushFront(probation, entry(call[p].key, call[p].val))
    /\ Goto(p, "unlock")
    /\ UNCHANGED <<protected, sizeVars, inputVars, histVars, lock, call, elem, ret, serial, expect>>

\* line 117
PurgeItems(p) ==
    /\ pc[p] = "purgeItems"
    /\ items' = <<>>
    /\ Goto(p, "purgeProbation")
    /\ UNCHANGED <<probation, protected, sizeVars, inputVars, histVars, lock, call, elem, ret, serial, expect>>

\* line 118
PurgeProbation(p) ==
    /\ pc[p] = "purgeProbation"
    /\ probation' = <<>>
    /\ Goto(p, "purgeProtected")
    /\ UNCHANGED <<items, protected, sizeVars, inputVars, histVars, lock, call, elem, ret, serial, expect>>

\* line 119
PurgeProtected(p) ==
    /\ pc[p] = "purgeProtected"
    /\ protected' = <<>>
    /\ Goto(p, "unlock")
    /\ UNCHANGED <<items, probation, sizeVars, inputVars, histVars, lock, call, elem, ret, serial, expect>>

\* line 91
ContainsRead(p) ==
    /\ pc[p] = "contains"
    /\ ret' = [ret EXCEPT ![p] = [NoRet EXCEPT !.ok = ContainsOp(Cache, call[p].key).ok]]
    /\ Goto(p, "unlock")
    /\ UNCHANGED <<cacheVars, sizeVars, inputVars, histVars, lock, call, elem, serial, expect>>

\* lines 99-103
PeekRead(p) ==
    /\ pc[p] = "peek"
    /\ ret' = [ret EXCEPT ![p] = [NoRet EXCEPT !.value = PeekOp(Cache, call[p].key).value,
                                              !.ok = PeekOp(Cache, call[p].key).ok]]
    /\ Goto(p, "unlock")
    /\ UNCHANGED <<cacheVars, sizeVars, inputVars, histVars, lock, call, elem, serial, expect>>

\* line 110
LenRead(p) ==
    /\ pc[p] = "len"
    /\ ret' = [ret EXCEPT ![p] = [NoRet EXCEPT !.n = LenOp(Cache).n]]
    /\ Goto(p, "unlock")
    /\ UNCHANGED <<cacheVars, sizeVars, inputVars, histVars, lock, call, elem, serial, expect>>

\* Unlock as a last statement instead of a deferred one: a panic skips it
UnlockSkippedOnPanic(p) ==
    /\ pc[p] = "unlock"
    /\ lock' = IF ret[p].panic THEN lock
               ELSE IF LockMode(call[p].op) = "Lock"
               THEN [lock EXCEPT !.writer = 0]
               ELSE [lock EXCEPT !.readers = @ \ {p}]
    /\ Goto(p, "done")
    /\ UNCHANGED <<cacheVars, sizeVars, inputVars, histVars, call, elem, ret, serial, expect>>

\* the deferred s.lock.Unlock() / s.lock.RUnlock(), also run when the call panics
Unlock(p) ==
    /\ pc[p] = "unlock"
    /\ lock' = IF LockMode(call[p].op) = "Lock"
               THEN [lock EXCEPT !.writer = 0]
               ELSE [lock EXCEPT !.readers = @ \ {p}]
    /\ Goto(p, "done")
    /\ UNCHANGED <<cacheVars, sizeVars, inputVars, histVars, call, elem, ret, serial, expect>>

\* the caller has its result and is free to call again
Finish(p) ==
    /\ pc[p] = "done"
    /\ Goto(p, "idle")
    /\ call' = [call EXCEPT ![p] = NoCall]
    /\ elem' = [elem EXCEPT ![p] = NoElem]
    /\ ret' = [ret EXCEPT ![p] = NoRet]
    /\ expect' = [expect EXCEPT ![p] = NoRet]
    /\ UNCHANGED <<cacheVars, sizeVars, inputVars, histVars, lock, serial>>

NextConc ==
    \E p \in Procs :
        \/ \E k \in Keys, v \in Values : Invoke(p, "Set", k, v)
        \/ \E k \in Keys : Invoke(p, "Get", k, 0)
        \/ \E k \in Keys : Invoke(p, "Contains", k, 0)
        \/ \E k \in Keys : Invoke(p, "Peek", k, 0)
        \/ Invoke(p, "Len", 0, 0)
        \/ Invoke(p, "Purge", 0, 0)
        \/ Acquire(p)
        \/ Lookup(p)
        \/ Refresh(p)
        \/ Test(p)
        \/ Push(p)
        \/ RemoveOld(p)
        \/ Overflow(p)
        \/ Write(p)
        \/ Return(p)
        \/ Room(p)
        \/ Admit(p)
        \/ PurgeItems(p)
        \/ PurgeProbation(p)
        \/ PurgeProtected(p)
        \/ ContainsRead(p)
        \/ PeekRead(p)
        \/ LenRead(p)
        \/ Unlock(p)
        \/ Finish(p)

SpecConc == InitConc /\ [][NextConc]_vars

\* the statements of a call in progress, from the lock taken to the result
Running(p) ==
    \/ Lookup(p) \/ Refresh(p) \/ Test(p) \/ Push(p) \/ RemoveOld(p) \/ Overflow(p)
    \/ Write(p) \/ Return(p) \/ Room(p) \/ Admit(p)
    \/ PurgeItems(p) \/ PurgeProbation(p) \/ PurgeProtected(p)
    \/ ContainsRead(p) \/ PeekRead(p) \/ LenRead(p)
    \/ Unlock(p) \/ Finish(p)

\* A caller that can run its next statement eventually runs it. A caller
\* waiting for the lock gets it if it is free again and again: sync.RWMutex
\* holds back new readers while a writer waits and hands the lock to a
\* waiter that was passed over (starvation mode). Callers need not call.
Fairness == \A p \in Procs : WF_vars(Running(p)) /\ SF_vars(Acquire(p))

SpecFair == InitConc /\ [][NextConc]_vars /\ Fairness

----------------------------------------------------------------------------
(* Properties of the calls run one at a time.                              *)

Present == DOMAIN items
IsHit == last'.op \in {"Set", "Get"} /\ last'.key \in Present
Without(l, k) == SelectSeq(l, LAMBDA x : x.key # k)
\* the key at the front of a list, 0 when the list is empty
FrontKey(l) == IF l = <<>> THEN 0 ELSE l[1].key

\* C1: after every call probation holds at most probationSize entries and
\* protected at most protectedSize entries.
CapacityInvariant ==
    /\ Len(probation) <= probationSize
    /\ Len(protected) <= protectedSize

\* both segments are full after a Set or a Get
CapacityWitness ==
    /\ last.op \in {"Set", "Get"}
    /\ probationSize >= 1
    /\ Len(probation) = probationSize
    /\ Len(protected) = protectedSize

\* C2: Set(k, v) followed immediately by Get(k) returns (v, true), for every
\* size >= 1.
RoundTrip ==
    [][(last.op = "Set" /\ last'.op = "Get" /\ last'.key = last.key)
        => (last'.ok /\ last'.ret = last.val)]_vars

\* C3: evict is never called on an empty list, so no Set or Get ends in a
\* nil dereference.
EvictNeverOnEmpty == ~last.panic

\* C4: Set of an absent key into a full probation removes exactly the key
\* admitted to probation longest ago, and no other key.
EvictsOldestProbation ==
    [][(last'.op = "Set" /\ last'.key \notin Present /\ Len(probation) = probationSize)
        => /\ admitOrder # <<>>
           /\ Head(admitOrder) \in KeysOf(probation)
           /\ Head(admitOrder) \notin DOMAIN items'
           /\ DOMAIN items' = (Present \ {Head(admitOrder)}) \cup {last'.key}]_vars

\* C5: Peek, Contains and Len leave the map, both lists (keys, values and
\* order) and the capacities as they were.
ReadsChangeNothing ==
    [][last'.op \in {"Peek", "Contains", "Len"} => UNCHANGED <<cacheVars, sizeVars>>]_vars

\* a Peek hit on the back of a probation of two: the next victim
ReadsWitness ==
    /\ last.op = "Peek"
    /\ last.ok
    /\ Len(probation) = 2
    /\ probation[2].key = last.key
    /\ protected # <<>>

\* C6: after Purge, Len() is 0, Contains is false for every key, both lists
\* are empty and the capacities are the ones New set.
PurgeEmpties ==
    [][last'.op = "Purge"
        => /\ LenOp(Cache').n = 0
           /\ \A k \in Keys : ~ContainsOp(Cache', k).ok
           /\ probation' = <<>> /\ protected' = <<>>
           /\ UNCHANGED sizeVars]_vars

\* Purge has run on a cache that can hold entries
PurgeWitness == last.op = "Purge" /\ size >= 5 /\ LenOp(Cache).n = 0

\* C7: for size >= 5, Set of an absent key puts it in probation; a hit on a
\* probation key moves it to the front of protected; a hit on a protected key
\* keeps it in protected, at the front.
AdmissionThenPromotion ==
    [][size >= 5 =>
        /\ (last'.op = "Set" /\ last'.key \notin Present)
            => /\ last'.key \in KeysOf(probation')
               /\ last'.key \notin KeysOf(protected')
               /\ items'[last'.key].list = "probation"
        /\ (IsHit /\ last'.key \in KeysOf(probation))
            => /\ FrontKey(protected') = last'.key
               /\ last'.key \notin KeysOf(probation')
               /\ last'.key \in DOMAIN items'
               /\ items'[last'.key].list = "protected"
        /\ (IsHit /\ last'.key \in KeysOf(protected))
            => /\ FrontKey(protected') = last'.key
               /\ last'.key \notin KeysOf(probation')
               /\ last'.key \in DOMAIN items'
               /\ probation' = probation]_vars

\* a Get hit left its key alone in protected while probation holds another
PromotionWitness ==
    /\ last.op = "Get" /\ last.ok
    /\ Len(protected) = 1 /\ FrontKey(protected) = last.key
    /\ Len(probation) = 1 /\ hitOrder = <<last.key>>

\* C8: Get of a protected key keeps Len(), the key set and probation, puts
\* the key's one element in front of the other protected entries, which keep
\* their order, and a second Get of it changes nothing more.
GetProtectedIdempotent ==
    [][(last'.op = "Get" /\ last'.key \in KeysOf(protected))
        => /\ LenOp(Cache').n = LenOp(Cache).n
           /\ DOMAIN items' = Present
           /\ probation' = probation
           /\ protected' = <<protected[Pos(protected, last'.key)]>> \o Without(protected, last'.key)
           /\ GetOp(Cache', last'.key).c = Cache'
           /\ last'.ok /\ last'.ret = protected[Pos(protected, last'.key)].value]_vars

\* a Get hit on the back of a full protected list of four
GetProtectedWitness ==
    /\ last.op = "Get" /\ last.ok
    /\ Len(protected) = 4 /\ protectedSize = 4
    /\ hitOrder[4] = last.key /\ Len(probation) = 1

----------------------------------------------------------------------------
(* Properties of concurrent callers.                                       *)

InCall(p) == pc[p] \in Holding
InMutator(p) == InCall(p) /\ call[p].op \in Mutators

\* the map and the lists agree, and no key is in both lists
Whole ==
    /\ KeysOf(probation) \cap KeysOf(protected) = {}
    /\ DOMAIN items = KeysOf(probation) \cup KeysOf(protected)
    /\ \A k \in DOMAIN items : items[k].key = k /\ ListOf(Cache, items[k]) = items[k].list

\* C9: while a caller is inside Set, Get or Purge no other caller is inside
\* any operation, and a caller inside Peek, Contains or Len sees a map that
\* agrees with the lists and no key in both lists.
WritersExcludeAll ==
    /\ \A p, q \in Procs : (p # q /\ InMutator(p)) => ~InCall(q)
    /\ \A p \in Procs : pc[p] \in {"contains", "peek", "len"} => Whole

\* a Peek is inside while a Get that will promote the same key waits for the lock
WritersExcludeWitness ==
    \E p, q \in Procs :
        /\ pc[p] = "peek" /\ pc[q] = "lock"
        /\ call[q].op = "Get" /\ call[q].key = call[p].key
        /\ call[p].key \in KeysOf(probation)

\* C10: the statements of two Set, Get or Purge calls never interleave; when
\* none is running the cache is the one obtained by running the calls whole,
\* one at a time, in the order they took the lock, and every finished call
\* returned what it returns in that order.
Serialized ==
    /\ \A p, q \in Procs : (p # q /\ InMutator(p)) => ~InMutator(q)
    /\ (\A p \in Procs : ~InMutator(p)) => Cache = serial
    /\ \A p \in Procs : (pc[p] = "done" /\ call[p].op \in Mutators) => ret[p] = expect[p]

\* a Set or Get waits for the lock while a promotion of the same key is half done
SerializedWitness ==
    \E p, q \in Procs :
        /\ pc[p] = "remove" /\ pc[q] = "lock"
        /\ call[q].op \in {"Set", "Get"} /\ call[q].key = call[p].key

\* C11: under fair scheduling every call that was made returns: the lock is
\* released on every path, also after a panic, and is never taken twice.
EveryCallReturns == \A p \in Procs : (pc[p] = "lock") ~> (pc[p] = "done")

\* a caller waits for the lock while a Set that panicked still holds it
EveryCallReturnsWitness ==
    \E p, q \in Procs :
        /\ pc[p] = "lock"
        /\ pc[q] = "unlock" /\ ret[q].panic /\ lock.writer = q

----------------------------------------------------------------------------
(* Further properties of the calls run one at a time.                      *)

IsSetHit == last'.op = "Set" /\ last'.key \in Present

\* C12 as stated: Set of a present key evicts nothing from probation and
\* leaves the number of keys, and Len(), as they were.
SetHitKeepsLen ==
    [][IsSetHit
        => /\ probation' = Without(probation, last'.key) \/ probation' = probation
           /\ Cardinality(DOMAIN items') = Cardinality(Present)
           /\ LenOp(Cache').n = LenOp(Cache).n]_vars

\* C12 as amended: Set of a present key removes nothing from probation but
\* the key itself when it is promoted, and leaves the number of keys and Len()
\* as they were unless it promotes the key into a full protected list: then
\* both drop by one.
SetHitLen ==
    [][IsSetHit
        => LET drop == IF last'.key \in KeysOf(probation) /\ Len(protected) = protectedSize
                       THEN 1 ELSE 0
           IN /\ probation' = Without(probation, last'.key)
              /\ Cardinality(DOMAIN items') = Cardinality(Present) - drop
              /\ LenOp(Cache').n = LenOp(Cache).n - drop]_vars

\* a Set hit left its key at the front of a full protected list, with
\* probation empty and one key of the callers absent
SetHitWitness ==
    /\ last.op = "Set" /\ ~last.panic
    /\ FrontKey(protected) = last.key
    /\ Len(protected) = protectedSize
    /\ probation = <<>>
    /\ Cardinality(Present) = numKeys - 1

\* C13: between calls the keys of the map are the keys of the two lists,
\* each key is held by one element of one list, the map entry of a key is
\* that element, and the map size is the sum of the list lengths, Len().
MapMatchesLists ==
    /\ DOMAIN items = KeysOf(probation) \cup KeysOf(protected)
    /\ KeysOf(probation) \cap KeysOf(protected) = {}
    /\ Cardinality(KeysOf(probation)) = Len(probation)
    /\ Cardinality(KeysOf(protected)) = Len(protected)
    /\ \A k \in DOMAIN items : items[k].key = k /\ ListOf(Cache, items[k]) = items[k].list
    /\ Cardinality(DOMAIN items) = Len(probation) + Len(protected)
    /\ LenOp(Cache).n = Cardinality(DOMAIN items)

\* a Set has evicted from a probation list of two while protected holds keys
MapMatchesWitness ==
    /\ last.op = "Set" /\ ~last.panic
    /\ Len(probation) = 2 /\ Len(protected) >= 2
    /\ Cardinality(Present) = numKeys - 1

\* C14: a hit that promotes a key into a full protected list removes exactly
\* one key, the protected key whose latest hit is the oldest; that key leaves
\* both lists and the map, and it is not the promoted key.
PromotionEvictsOldestHit ==
    [][(IsHit /\ last'.key \in KeysOf(probation) /\ Len(protected) = protectedSize)
        => /\ hitOrder # <<>>
           /\ Head(hitOrder) \in KeysOf(protected)
           /\ Head(hitOrder) # last'.key
           /\ DOMAIN items' = Present \ {Head(hitOrder)}
           /\ Head(hitOrder) \notin KeysOf(probation') \cup KeysOf(protected')
           /\ last'.key \in KeysOf(protected')]_vars

\* a Get hit left its key at the front of a full protected list, with
\* probation empty and one key of the callers absent
PromotionEvictsWitness ==
    /\ last.op = "Get" /\ last.ok
    /\ FrontKey(protected) = last.key
    /\ Len(protected) = protectedSize
    /\ probation = <<>>
    /\ Cardinality(Present) = numKeys - 1

\* C15: Set of an absent key leaves protected as it was; a hit takes nothing
\* out of probation but the key it hits; a key leaves the cache from probation
\* only when a new key is admitted and from protected only in a promotion
\* (Purge aside).
SegmentsIndependent ==
    [][last'.op # "Purge" =>
        /\ (last'.op = "Set" /\ last'.key \notin Present) => protected' = protected
        /\ IsHit => probation' = Without(probation, last'.key)
        /\ \A k \in KeysOf(probation) :
              k \notin DOMAIN items' => (last'.op = "Set" /\ last'.key \notin Present)
        /\ \A k \in KeysOf(protected) :
              k \notin DOMAIN items' => (IsHit /\ last'.key \in KeysOf(probation))]_vars

\* a Set admitted a key into a probation list of two beside a protected list
\* of two or more keys
SegmentsWitness ==
    /\ last.op = "Set" /\ ~last.panic
    /\ Len(probation) = 2 /\ FrontKey(probation) = last.key
    /\ Len(protected) >= 2

\* C16: for every key present, Peek and Get return the value of the latest
\* Set of that key, also when that Set promoted the key.
LatestValueRead ==
    /\ DOMAIN written = Present
    /\ \A k \in Present :
          /\ PeekOp(Cache, k).ok /\ PeekOp(Cache, k).value = written[k]
          /\ GetOp(Cache, k).ok /\ GetOp(Cache, k).value = written[k]
    /\ (last.op \in {"Peek", "Get"} /\ last.ok) => last.ret = written[last.key]

\* a Set that promoted its key wrote a value other than the one admitted
\* (the key is alone in protected, and all stored values are equal otherwise)
LatestValueWitness ==
    /\ last.op = "Set" /\ ~last.panic /\ last.val = 2
    /\ hitOrder = <<last.key>>
    /\ Len(probation) = 2
    /\ \A i \in 1..2 : probation[i].value = 1

\* the key at the back of a list, 0 when the list is empty
BackKey(l) == IF l = <<>> THEN 0 ELSE l[Len(l)].key
\* this step admits a new key into a full probation list
AdmitsIntoFull == last'.op = "Set" /\ last'.key \notin Present /\ Len(probation) >= probationSize
\* this step promotes a key into a full protected list
PromotesIntoFull == IsHit /\ last'.key \in KeysOf(probation) /\ Len(protected) >= protectedSize

\* C17: a protected key stays in protected or leaves the cache, never goes to
\* probation; a present key leaves the cache only as the victim of an eviction
\* or by Purge; a key enters probation only when it was absent and is Set.
ProtectedNeverDemoted ==
    [][/\ \A k \in KeysOf(protected) :
             \/ k \in KeysOf(protected') /\ k \notin KeysOf(probation')
             \/ k \notin DOMAIN items' /\ k \notin KeysOf(probation') \cup KeysOf(protected')
       /\ \A k \in Present :
             k \notin DOMAIN items'
                => \/ last'.op = "Purge"
                   \/ AdmitsIntoFull /\ k = BackKey(probation)
                   \/ PromotesIntoFull /\ k = BackKey(protected)
       /\ \A k \in KeysOf(probation') :
             k \notin KeysOf(probation) => (k \notin Present /\ last'.op = "Set" /\ last'.key = k)]_vars

\* a Set admitted its key to probation beside a full protected list, with
\* every key of the callers present
ProtectedNeverDemotedWitness ==
    /\ last.op = "Set" /\ ~last.panic
    /\ FrontKey(probation) = last.key
    /\ Len(protected) = protectedSize
    /\ Cardinality(Present) = numKeys
    /\ probationSize = 1

\* C18: Get of an absent key returns the zero value and false and leaves the
\* map, both lists and the capacities as they were.
GetMissChangesNothing ==
    [][(last'.op = "Get" /\ last'.key \notin Present)
        => /\ ~last'.ok /\ last'.ret = ZeroValue /\ ~last'.panic
           /\ UNCHANGED <<cacheVars, sizeVars>>]_vars

\* a Get missed while probation was full and protected held keys
GetMissWitness ==
    /\ last.op = "Get" /\ ~last.ok
    /\ Len(probation) = 2 /\ probationSize = 2
    /\ protected # <<>>

\* C19: for size > 0 the two capacities add up to size, the probation
\* capacity is floor(size / 5), and Len() never exceeds size.
CapacitySplit ==
    /\ probationSize + protectedSize = size
    /\ 5 * probationSize <= size /\ size < 5 * probationSize + 5
    /\ LenOp(Cache).n <= size

\* a cache of size 5 holds 5 keys
CapacitySplitWitness == size = 5 /\ LenOp(Cache).n = size /\ last.op # "New"

\* C20: New with a non-positive size fails; no cache with such a size is
\* handed out and used.
NonPositiveSizeRejected == size <= 0 => (last.op = "New" /\ last.panic)

====
